---- MODULE Spec2Model ----
(***************************************************************************)
(* A model of ragic.DataClient (src/ragic/main.py): the filter compiler    *)
(* (_translate, _compile), the stateful query definition (define_query)    *)
(* and the fetch-and-normalise step (get_dataframe).                       *)
(*                                                                         *)
(* Python values are modelled as follows.                                  *)
(*   Optional[T]      <<>> is None, <<x>> is the value x                   *)
(*   str (URL parts)  a sequence of string tokens; Flat gives the text     *)
(*   str | int        a tagged record, see IntV / StrV                     *)
(*   DataFrame cell   a tagged record, see the Cell section                *)
(*   dict             a sequence of entries, in insertion order            *)
(***************************************************************************)
EXTENDS Integers, Sequences, FiniteSets, TLC

VARIABLES
    query_string,    \* DataClient.__query_string : Optional[tokens]
    active_tab,      \* DataClient.__active_tab   : Optional[str]
    active_table,    \* DataClient.__active_table : Optional[str]
    backend,         \* what the backend answers to the next GET
    na_cast_raises,  \* whether astype("float32") rejects pd.NA on this pandas
    op,              \* the last public call: "new", "define_query", "get_dataframe"
    args,            \* its arguments
    pre,             \* the client's three fields when it was called
    raised,          \* the exception it raised to the caller, "" for none
    ret,             \* its return value: Optional[table]
    gets,            \* the URLs it passed to requests.get
    logged,          \* the exception it handed to logger.error, "" for none
    reply,           \* the answer its requests.get received: Optional[reply]
    frame,           \* its local df as built at line 282: Optional[table]
    defined,         \* whether a define_query call has returned normally
    c_in,            \* _compile harness: the arguments
    c_pc,            \* _compile harness: "ready" or "done"
    c_res            \* _compile harness: the outcome

vars == <<query_string, active_tab, active_table, backend, na_cast_raises, op,
          args, pre, raised, ret, gets, logged, reply, frame, defined, c_in,
          c_pc, c_res>>

clientVars  == <<query_string, active_tab, active_table>>
callVars    == <<op, args, pre, raised, ret, gets, logged, reply, frame>>
compileVars == <<c_in, c_pc, c_res>>

-----------------------------------------------------------------------------
(* Bounds of the model *)

MaxConds == 2
MaxCells == 6
MaxNumeral == 60

-----------------------------------------------------------------------------
(* Optional[T] *)

None == <<>>
Some(x) == <<x>>

(* str | int values of a filter condition *)
IntV(n) == [k |-> "int", n |-> n, s |-> ""]
StrV(s) == [k |-> "str", n |-> 0, s |-> s]

Digit == <<"0", "1", "2", "3", "4", "5", "6", "7", "8", "9">>

(* str(n) for a non-negative int, as an f-string formats it *)
RECURSIVE FmtInt(_)
FmtInt(n) ==
    IF n < 10 THEN Digit[n + 1]
    ELSE FmtInt(n \div 10) \o Digit[(n % 10) + 1]

(* f"{value}" for a str | int *)
Fmt(v) == IF v.k = "int" THEN FmtInt(v.n) ELSE v.s

(* the text of a token sequence *)
RECURSIVE Flat(_)
Flat(tokens) ==
    IF tokens = <<>> THEN "" ELSE Head(tokens) \o Flat(Tail(tokens))

-----------------------------------------------------------------------------
(* The structure file, as yaml.safe_load returns it.  The tab PB with the  *)
(* table Donations (Amount, Name) is the schema of the spec's scenarios;   *)
(* Donors is a second table of the same tab.                               *)

Column(name, fieldId, type) == [name |-> name, fieldId |-> fieldId, type |-> type]

Structure ==
    [tabs |-> <<
        [name |-> "PB", identifier |-> "pb", tables |-> <<
            [name |-> "Donations", identifier |-> "don", columns |-> <<
                Column("Amount", "1001", "number"),
                Column("Name", "1002", "text") >>],
            [name |-> "Donors", identifier |-> "dnr", columns |-> <<
                Column("Name", "2001", "text") >>] >>] >>]

(* d[key] on a dict kept as a sequence of named entries; callers test Has first,
   the KeyError of a missing key is raised where the lookup is made *)
Has(d, key) == \E i \in 1..Len(d) : d[i].name = key
Get(d, key) == d[CHOOSE i \in 1..Len(d) : d[i].name = key]

(* self.structure["tabs"][tab_name]["tables"] *)
HasTab(tab_name) == Has(Structure.tabs, tab_name)
tables(tab_name) == Get(Structure.tabs, tab_name).tables

(* self.structure["tabs"][tab_name]["tables"][table_name]["columns"] *)
columns(tab_name, table_name) == Get(tables(tab_name), table_name).columns

-----------------------------------------------------------------------------
(* QueryFilterType and the filter compiler *)

QueryFilterType == {"EQUAL", "GTE", "LTE", "GT", "LT", "CONTAINS"}

(* variant: GT answered with the code of GTE *)
Translate_SwapGt(operator) ==
    CASE operator = "EQUAL" -> "eq"
      [] operator = "GTE" -> "gte"
      [] operator = "LTE" -> "lte"
      [] operator = "GT" -> "gte"
      [] operator = "LT" -> "lt"
      [] operator = "CONTAINS" -> "like"

(* _translate: the six members, one code each *)
Translate(operator) ==
    CASE operator = "EQUAL" -> "eq"
      [] operator = "GTE" -> "gte"
      [] operator = "LTE" -> "lte"
      [] operator = "GT" -> "gt"
      [] operator = "LT" -> "lt"
      [] operator = "CONTAINS" -> "like"

(* "&".join(output_strings), each string a token sequence *)
RECURSIVE JoinAmp(_)
JoinAmp(strings) ==
    IF strings = <<>> THEN <<>>
    ELSE IF Len(strings) = 1 THEN strings[1]
    ELSE strings[1] \o <<"&">> \o JoinAmp(Tail(strings))

(* the for loop of _compile: the first filter whose field is not a key of
   table_structure["columns"] raises KeyError and nothing is returned *)
RECURSIVE CompileLoop(_, _, _)
CompileLoop(table_structure, filters, output_strings) ==
    IF filters = <<>> THEN [raised |-> "", out |-> output_strings]
    ELSE LET _filter == Head(filters)
         IN  IF ~Has(table_structure.columns, _filter.field_name)
             THEN [raised |-> "KeyError", out |-> <<>>]
             ELSE LET field_id == Get(table_structure.columns, _filter.field_name).fieldId
                  IN  CompileLoop(table_structure, Tail(filters),
                          Append(output_strings,
                              <<"where=", field_id, ",", Translate(_filter.operator),
                                ",", Fmt(_filter.field_value)>>))

Compile(table_structure, filters) ==
    LET r == CompileLoop(table_structure, filters, <<>>)
    IN  IF r.raised # "" THEN r
        ELSE [raised |-> "", out |-> <<"&">> \o JoinAmp(r.out)]

-----------------------------------------------------------------------------
(* Inputs *)

Filter(field_name, operator, field_value) ==
    [field_name |-> field_name, operator |-> operator, field_value |-> field_value]

FieldNames == {"Amount", "Name", "Ghost"}
FieldValues == {IntV(10), StrV("x")}

AllFilters ==
    {Filter(f, o, v) : f \in FieldNames, o \in QueryFilterType, v \in FieldValues}

SeqsUpTo(S, n) == UNION {[1..k -> S] : k \in 0..n}

AllTables == {tables("PB")[i] : i \in 1..Len(tables("PB"))}

-----------------------------------------------------------------------------
(* Construction parameters.  version is the one src/main.py passes; base_url
   and namespace stand for the values read from the environment. *)

version == 3
base_url == "https://api.example"
namespace == "acme"

(* define_query, lines 187-192: the base query string, then the compiled
   filters when conditions is not None.  self.tables(tab_name)[table_name]
   is evaluated only in that case. *)
BaseQuery(include_subtable) ==
    <<"v=", FmtInt(version), "&info=true&listing=true&subtables=",
      IF include_subtable THEN "1" ELSE "0">>

BuildQuery(tab_name, table_name, conditions, include_subtable) ==
    IF conditions = None
    THEN [raised |-> "", out |-> BaseQuery(include_subtable)]
    ELSE IF ~HasTab(tab_name) \/ ~Has(tables(tab_name), table_name)
    THEN [raised |-> "KeyError", out |-> <<>>]
    ELSE LET r == Compile(Get(tables(tab_name), table_name), conditions[1])
         IN  IF r.raised # "" THEN r
             ELSE [raised |-> "", out |-> BaseQuery(include_subtable) \o r.out]

(* variant: the field assigned before the filters are compiled *)
Store_BeforeCompile(r, value, old) == Some(value)

(* lines 194-196 are reached only when nothing was raised before them *)
Store(r, value, old) == IF r.raised = "" THEN Some(value) ELSE old

DefineQuery(tab_name, table_name, conditions, include_subtable) ==
    LET r == BuildQuery(tab_name, table_name, conditions, include_subtable)
    IN  /\ query_string' = Store(r, r.out, query_string)
        /\ active_tab' = Store(r, tab_name, active_tab)
        /\ active_table' = Store(r, table_name, active_table)
        /\ op' = "define_query"
        /\ args' = [tab_name |-> tab_name, table_name |-> table_name,
                    conditions |-> conditions, include_subtable |-> include_subtable]
        /\ pre' = <<query_string, active_tab, active_table>>
        /\ raised' = r.raised
        /\ ret' = None
        /\ gets' = <<>>
        /\ logged' = ""
        /\ reply' = None
        /\ frame' = None
        /\ defined' = (defined \/ r.raised = "")
        /\ UNCHANGED <<backend, na_cast_raises, compileVars>>

-----------------------------------------------------------------------------
(* DataFrame cells.  A JSON string is a str cell; the DataFrame constructor
   pads short rows with None; the number branch makes pd.NA, then float32. *)

StrCell(s) == [k |-> "str", s |-> s, n |-> 0]
FloatCell(n) == [k |-> "float", s |-> "", n |-> n]
NaNCell == [k |-> "nan", s |-> "", n |-> 0]
NoneCell == [k |-> "none", s |-> "", n |-> 0]
NACell == [k |-> "NA", s |-> "", n |-> 0]

(* float(s) of a str: the decimal numerals the model knows parse, anything
   else raises ValueError *)
Numerals == [n \in 0..MaxNumeral |-> FmtInt(n)]
IsNumeral(s) == \E n \in 0..MaxNumeral : Numerals[n] = s
ParseFloat(s) == CHOOSE n \in 0..MaxNumeral : Numerals[n] = s

IndexOf(seq, x) == CHOOSE i \in 1..Len(seq) : seq[i] = x
InSeq(seq, x) == \E i \in 1..Len(seq) : seq[i] = x

(* field.startswith("_"), over the field keys the backend sends *)
Underscored == {"_ragicId", "_create_date", "_update_date"}

Skipped(field) ==
    field \in Underscored /\ field # "_create_date" /\ field # "_update_date"

(* lines 270-279: the inner loop over one record's items *)
RECURSIVE FlattenRecord(_, _, _)
FlattenRecord(items, cols, _values) ==
    IF items = <<>> THEN [columns |-> cols, _values |-> _values]
    ELSE LET field == Head(items).name
             value == Head(items).value
         IN  IF Skipped(field) THEN FlattenRecord(Tail(items), cols, _values)
             ELSE FlattenRecord(Tail(items),
                      IF InSeq(cols, field) THEN cols ELSE Append(cols, field),
                      Append(_values, StrCell(value)))

(* lines 266-280: the outer loop over data.items() *)
RECURSIVE FlattenLoop(_, _, _)
FlattenLoop(data, cols, values) ==
    IF data = <<>> THEN [columns |-> cols, values |-> values]
    ELSE LET r == FlattenRecord(Head(data).fields, cols, <<StrCell(Head(data).key)>>)
         IN  FlattenLoop(Tail(data), r.columns, Append(values, r._values))

Pad(row, width) == [j \in 1..width |-> IF j <= Len(row) THEN row[j] ELSE NoneCell]

Widest(values) ==
    CHOOSE w \in {Len(values[i]) : i \in 1..Len(values)} :
        \A i \in 1..Len(values) : Len(values[i]) <= w

(* pd.DataFrame(values, columns=columns) on a list of lists: the rows are
   laid out by position and padded with None to the longest row; the
   constructor raises ValueError unless that width is len(columns) *)
DataFrame(values, cols) ==
    IF values = <<>> THEN [raised |-> "", columns |-> cols, rows |-> <<>>]
    ELSE IF Widest(values) # Len(cols)
    THEN [raised |-> "ValueError", columns |-> cols, rows |-> <<>>]
    ELSE [raised |-> "", columns |-> cols,
          rows |-> [i \in 1..Len(values) |-> Pad(values[i], Len(cols))]]

(* lambda x: pd.NA if x == "" else x *)
NumberTransform(x) == IF x = StrCell("") THEN NACell ELSE x

(* lambda x: "Missing Value" if x == "" else x *)
TextTransform(x) == IF x = StrCell("") THEN StrCell("Missing Value") ELSE x

(* variant: a str element is left as it is *)
AsFloat32_KeepStr(x) ==
    CASE x.k = "NA" ->
            IF na_cast_raises THEN [raised |-> "TypeError", cell |-> x]
            ELSE [raised |-> "", cell |-> NaNCell]
      [] x.k = "none" -> [raised |-> "", cell |-> NaNCell]
      [] OTHER -> [raised |-> "", cell |-> x]

(* one element of astype("float32") on an object column: a numeral parses,
   None becomes NaN, another str raises ValueError, pd.NA raises TypeError
   where the column is of object dtype (pandas 1.x, 2.x) *)
AsFloat32(x) ==
    CASE x.k = "NA" ->
            IF na_cast_raises THEN [raised |-> "TypeError", cell |-> x]
            ELSE [raised |-> "", cell |-> NaNCell]
      [] x.k = "none" -> [raised |-> "", cell |-> NaNCell]
      [] x.k = "str" ->
            IF IsNumeral(x.s) THEN [raised |-> "", cell |-> FloatCell(ParseFloat(x.s))]
            ELSE [raised |-> "ValueError", cell |-> x]
      [] OTHER -> [raised |-> "", cell |-> x]

(* the cast of a whole column fails with the first element that fails *)
CastColumn(cells) ==
    LET cast == [i \in 1..Len(cells) |-> AsFloat32(cells[i])]
        bad == {i \in 1..Len(cells) : cast[i].raised # ""}
    IN  IF bad = {}
        THEN [raised |-> "", cells |-> [i \in 1..Len(cells) |-> cast[i].cell]]
        ELSE [raised |-> cast[CHOOSE i \in bad : \A b \in bad : i <= b].raised,
              cells |-> cells]

ColumnCells(rows, j) == [i \in 1..Len(rows) |-> rows[i][j]]
SetColumn(rows, j, cells) ==
    [i \in 1..Len(rows) |-> [rows[i] EXCEPT ![j] = cells[i]]]

(* lines 287-299: the loop over the declared columns, in the structure's order;
   df[column_name] raises KeyError when the frame has no such column *)
RECURSIVE CoerceLoop(_, _)
CoerceLoop(columns_structure, df) ==
    IF columns_structure = <<>> THEN df
    ELSE LET column_name == Head(columns_structure).name
             column_type == Head(columns_structure).type
         IN  IF ~InSeq(df.columns, column_name)
             THEN [df EXCEPT !.raised = "KeyError"]
             ELSE LET j == IndexOf(df.columns, column_name)
                      cells == ColumnCells(df.rows, j)
                  IN  IF column_type = "number"
                      THEN LET c == CastColumn([i \in 1..Len(cells) |->
                                                   NumberTransform(cells[i])])
                           IN  IF c.raised # "" THEN [df EXCEPT !.raised = c.raised]
                               ELSE CoerceLoop(Tail(columns_structure),
                                        [df EXCEPT !.rows = SetColumn(df.rows, j, c.cells)])
                      ELSE CoerceLoop(Tail(columns_structure),
                               [df EXCEPT !.rows = SetColumn(df.rows, j,
                                   [i \in 1..Len(cells) |-> TextTransform(cells[i])])])

Table(df) == [columns |-> df.columns, rows |-> df.rows]

(* variant: without the df.empty test of lines 283-284 *)
Normalize_EmptyTable(data, columns_structure) ==
    LET f == FlattenLoop(data, <<"index">>, <<>>)
        df == DataFrame(f.values, f.columns)
    IN  IF df.raised # "" THEN [logged |-> df.raised, ret |-> None, frame |-> None]
        ELSE LET c == CoerceLoop(columns_structure, df)
             IN  IF c.raised # ""
                 THEN [logged |-> c.raised, ret |-> None, frame |-> Some(Table(df))]
                 ELSE [logged |-> "", ret |-> Some(Table(c)), frame |-> Some(Table(df))]

(* lines 264-305 after response.json(): an exception anywhere is logged and
   None is returned; an empty frame returns None without a log line *)
Normalize(data, columns_structure) ==
    LET f == FlattenLoop(data, <<"index">>, <<>>)
        df == DataFrame(f.values, f.columns)
    IN  IF df.raised # "" THEN [logged |-> df.raised, ret |-> None, frame |-> None]
        ELSE IF df.rows = <<>>
        THEN [logged |-> "", ret |-> None, frame |-> Some(Table(df))]
        ELSE LET c == CoerceLoop(columns_structure, df)
             IN  IF c.raised # ""
                 THEN [logged |-> c.raised, ret |-> None, frame |-> Some(Table(df))]
                 ELSE [logged |-> "", ret |-> Some(Table(c)), frame |-> Some(Table(df))]

(* lines 250-255 *)
Url(offset, limit) ==
    <<base_url, "/", namespace, "/",
      Get(Structure.tabs, active_tab[1]).identifier, "/",
      Get(tables(active_tab[1]), active_table[1]).identifier, "?">>
    \o query_string[1]
    \o <<"&", "limit=", FmtInt(limit), "&offset=", FmtInt(offset)>>

(* lines 243-248: raise ValueError("Query not ready!!!") *)
NotReady == query_string = None \/ active_tab = None \/ active_table = None

(* variant: None returned where the ValueError is raised *)
QueryNotReady_Silent ==
    [raised |-> "", ret |-> None, gets |-> <<>>, logged |-> "", reply |-> None,
     frame |-> None]

QueryNotReady ==
    [raised |-> "ValueError", ret |-> None, gets |-> <<>>, logged |-> "",
     reply |-> None, frame |-> None]

(* lines 250-251, outside the try: a tab or table the structure does not
   hold raises KeyError to the caller *)
Resolvable ==
    HasTab(active_tab[1]) /\ Has(tables(active_tab[1]), active_table[1])

(* variant: the RequestException is logged and raised again *)
Fetch_Raising(answer) ==
    CASE answer.transport = "ok" ->
            Normalize(answer.data, columns(active_tab[1], active_table[1]))
              @@ [raised |-> ""]
      [] OTHER -> [logged |-> "RequestException", ret |-> None, frame |-> None,
                   raised |-> "RequestException"]

(* lines 260-305: requests.get, raise_for_status, response.json(), normalise;
   both except clauses log and fall through to return None *)
Fetch(answer) ==
    CASE answer.transport = "ok" ->
            Normalize(answer.data, columns(active_tab[1], active_table[1]))
              @@ [raised |-> ""]
      [] OTHER -> [logged |-> "RequestException", ret |-> None, frame |-> None,
                   raised |-> ""]

Outcome(offset, limit) ==
    IF NotReady THEN QueryNotReady
    ELSE IF ~Resolvable
    THEN [raised |-> "KeyError", ret |-> None, gets |-> <<>>, logged |-> "",
          reply |-> None, frame |-> None]
    ELSE Fetch(backend) @@ [gets |-> <<Url(offset, limit)>>, reply |-> Some(backend)]

(* variant: the field reset once the page is fetched *)
Keep_Clear(old) == None

(* get_dataframe assigns none of the three fields *)
Keep(old) == old

GetDataframe(offset, limit) ==
    LET r == Outcome(offset, limit)
    IN  /\ op' = "get_dataframe"
        /\ args' = [offset |-> offset, limit |-> limit]
        /\ pre' = <<query_string, active_tab, active_table>>
        /\ query_string' = Keep(query_string)
        /\ active_tab' = Keep(active_tab)
        /\ active_table' = Keep(active_table)
        /\ raised' = r.raised
        /\ ret' = r.ret
        /\ gets' = r.gets
        /\ logged' = r.logged
        /\ reply' = r.reply
        /\ frame' = r.frame
        /\ UNCHANGED <<backend, na_cast_raises, defined, compileVars>>

-----------------------------------------------------------------------------
(* What the backend may answer *)

Reply(transport, data) == [transport |-> transport, data |-> data]

Failures ==
    {Reply("network_failure", <<>>), Reply("http_error", <<>>),
     Reply("invalid_json", <<>>)}

Item(name, value) == [name |-> name, value |-> value]
Record(key, fields) == [key |-> key, fields |-> fields]

ResponseFields == {"Amount", "Name", "_ragicId", "_create_date"}

ValuesOf(field) ==
    CASE field = "Amount" -> {"", "50"}
      [] field = "Name" -> {"", "Alice"}
      [] field = "_ragicId" -> {"7"}
      [] field = "_create_date" -> {"2025/01/01"}

Items == UNION {{Item(f, v) : v \in ValuesOf(f)} : f \in ResponseFields}

(* the bodies of k fields: a JSON object has each key once *)
Bodies ==
    [k \in 0..MaxCells |->
        {b \in [1..k -> Items] :
            \A i \in 1..k : \A j \in 1..k : i # j => b[i].name # b[j].name}]

(* the record sets of at most n cells (a record's key and its fields), the
   records keyed "1", "2", ... from idx on *)
RECURSIVE Responses(_, _)
Responses(n, idx) ==
    {<<>>} \cup
    UNION {{<<Record(FmtInt(idx), b)>> \o rest :
                b \in Bodies[k], rest \in Responses(n - 1 - k, idx + 1)} :
           k \in 0..(n - 1)}

(* the response of the spec's scenario, keyed by field id *)
ScenarioById ==
    <<Record("1", <<Item("1001", ""), Item("1002", "Alice")>>),
      Record("2", <<Item("1001", "50"), Item("1002", "")>>)>>

(* the same records keyed by column name *)
ScenarioByName ==
    <<Record("1", <<Item("Amount", ""), Item("Name", "Alice")>>),
      Record("2", <<Item("Amount", "50"), Item("Name", "")>>)>>

FetchReplies ==
    Failures \cup {Reply("ok", d) : d \in Responses(MaxCells, 1) \cup {ScenarioById}}

SmallReplies ==
    {Reply("network_failure", <<>>), Reply("http_error", <<>>),
     Reply("ok", <<>>),
     Reply("ok", <<Record("1", <<Item("Amount", "50"), Item("Name", "Alice")>>)>>)}

-----------------------------------------------------------------------------
(* _compile on its own: the arguments are drawn, the call is made once *)

NoCall ==
    /\ op = "new"
    /\ args = <<>>
    /\ pre = <<None, None, None>>
    /\ raised = ""
    /\ ret = None
    /\ gets = <<>>
    /\ logged = ""
    /\ reply = None
    /\ frame = None

Unconfigured ==
    /\ query_string = None
    /\ active_tab = None
    /\ active_table = None
    /\ defined = FALSE

InitCompile ==
    /\ Unconfigured
    /\ NoCall
    /\ backend = [transport |-> "network_failure", data |-> <<>>]
    /\ na_cast_raises = TRUE
    /\ c_in \in {[table_structure |-> t, filters |-> fs] :
                    t \in AllTables, fs \in SeqsUpTo(AllFilters, MaxConds)}
    /\ c_pc = "ready"
    /\ c_res = [raised |-> "", out |-> <<>>]

CompileCall ==
    /\ c_pc = "ready"
    /\ c_res' = Compile(c_in.table_structure, c_in.filters)
    /\ c_pc' = "done"
    /\ UNCHANGED <<c_in, clientVars, callVars, backend, na_cast_raises, defined>>

NextCompile == CompileCall

SpecCompile == InitCompile /\ [][NextCompile]_vars

-----------------------------------------------------------------------------
(* The client: constructed, then define_query and get_dataframe in any order
   with any arguments, against a backend whose answer changes between calls *)

IdleCompile ==
    /\ c_in = [table_structure |-> tables("PB")[1], filters |-> <<>>]
    /\ c_pc = "idle"
    /\ c_res = [raised |-> "", out |-> <<>>]

Init ==
    /\ Unconfigured
    /\ NoCall
    /\ backend \in SmallReplies
    /\ na_cast_raises \in BOOLEAN
    /\ IdleCompile

TabNames == {"PB", "Nowhere"}
TableNames == {"Donations", "Donors", "Nowhere"}
SomeFilters == {Filter("Amount", "GT", IntV(10)), Filter("Ghost", "EQUAL", StrV("x"))}
Offsets == {0, 100}

DefineAny ==
    \E tab_name \in TabNames, table_name \in TableNames, include_subtable \in BOOLEAN,
       conditions \in {None} \cup {Some(fs) : fs \in SeqsUpTo(SomeFilters, MaxConds)} :
        DefineQuery(tab_name, table_name, conditions, include_subtable)

FetchAny == \E offset \in Offsets : GetDataframe(offset, 100)

BackendTurn ==
    /\ backend' \in SmallReplies
    /\ UNCHANGED <<clientVars, callVars, compileVars, na_cast_raises, defined>>

Next == DefineAny \/ FetchAny \/ BackendTurn

Spec == Init /\ [][Next]_vars

-----------------------------------------------------------------------------
(* get_dataframe as a function of the response: the backend's answer is
   drawn once, a table of the structure is made active without conditions,
   and the page is fetched with the default offset and limit *)

InitFetch ==
    /\ Unconfigured
    /\ NoCall
    /\ backend \in FetchReplies
    /\ na_cast_raises \in BOOLEAN
    /\ IdleCompile

DefineTable ==
    \E table_name \in {"Donations", "Donors"} :
        DefineQuery("PB", table_name, None, FALSE)

FetchPage == GetDataframe(0, 100)

NextFetch == DefineTable \/ FetchPage

SpecFetch == InitFetch /\ [][NextFetch]_vars

-----------------------------------------------------------------------------
(* Properties of _compile, under SpecCompile *)

C1_Code ==
    [EQUAL |-> "eq", GTE |-> "gte", LTE |-> "lte", GT |-> "gt", LT |-> "lt",
     CONTAINS |-> "like"]

C1_AllDeclared ==
    \A i \in 1..Len(c_in.filters) :
        Has(c_in.table_structure.columns, c_in.filters[i].field_name)

C1_Clause(i) ==
    LET f == c_in.filters[i]
    IN  <<"where=", Get(c_in.table_structure.columns, f.field_name).fieldId, ",",
          C1_Code[f.operator], ",", Fmt(f.field_value)>>

(* C1: for filters whose fields are all declared in the table, _compile
   returns "&" followed by one where=<fieldId>,<code>,<value> clause per
   filter, in input order, separated by "&", nothing merged or dropped; and
   [("Amount", GT, 10)] on Donations gives "&where=1001,gt,10". *)
C1_CompileClauses ==
    (c_pc = "done" /\ C1_AllDeclared) =>
        LET n == Len(c_in.filters)
            out == c_res.out
        IN  /\ c_res.raised = ""
            /\ Len(out) = (IF n = 0 THEN 1 ELSE 7 * n)
            /\ out[1] = "&"
            /\ Cardinality({j \in 1..Len(out) : out[j] = "where="}) = n
            /\ Cardinality({j \in 1..Len(out) : out[j] = "&"}) = (IF n = 0 THEN 1 ELSE n)
            /\ \A i \in 1..n :
                   SubSeq(out, 7 * (i - 1) + 1, 7 * i) = <<"&">> \o C1_Clause(i)
            /\ (/\ c_in.table_structure.name = "Donations"
                /\ c_in.filters = <<Filter("Amount", "GT", IntV(10))>>)
                   => Flat(out) = "&where=1001,gt,10"

C1_Witness ==
    /\ c_pc = "done"
    /\ c_res.raised = ""
    /\ c_in.table_structure.name = "Donations"
    /\ c_in.filters = <<Filter("Name", "CONTAINS", StrV("x")),
                        Filter("Name", "CONTAINS", StrV("x"))>>
    /\ Flat(c_res.out) = "&where=1002,like,x&where=1002,like,x"

-----------------------------------------------------------------------------
(* Properties of the client, under Spec *)

Client == <<query_string, active_tab, active_table>>

Declared(tab_name, table_name, field_name) ==
    /\ HasTab(tab_name)
    /\ Has(tables(tab_name), table_name)
    /\ Has(columns(tab_name, table_name), field_name)

Count(seq, x) == Cardinality({j \in 1..Len(seq) : seq[j] = x})

C2_UndeclaredGiven ==
    /\ op = "define_query"
    /\ args.conditions # None
    /\ \E i \in 1..Len(args.conditions[1]) :
           ~Declared(args.tab_name, args.table_name,
                     args.conditions[1][i].field_name)

(* C2: a define_query whose conditions name, at any position, a column that
   is not declared for the table raises KeyError (the FieldNotFound kind)
   and leaves query_string, active_tab and active_table as they were. *)
C2_NoPartialOutput ==
    C2_UndeclaredGiven => (raised = "KeyError" /\ ret = None /\ Client = pre)

C2_Witness ==
    /\ C2_UndeclaredGiven
    /\ args.tab_name = "PB"
    /\ args.table_name = "Donations"
    /\ args.conditions =
           Some(<<Filter("Amount", "GT", IntV(10)), Filter("Ghost", "EQUAL", StrV("x"))>>)
    /\ raised = "KeyError"
    /\ pre = <<Some(BaseQuery(TRUE)), Some("PB"), Some("Donors")>>
    /\ Client = pre

(* C3: while no define_query call has returned normally, get_dataframe
   raises ValueError, issues no GET and leaves the client Unconfigured. *)
C3_QueryNotReady ==
    (op = "get_dataframe" /\ ~defined) =>
        /\ raised = "ValueError"
        /\ gets = <<>>
        /\ reply = None
        /\ ret = None
        /\ query_string = None /\ active_tab = None /\ active_table = None

C3_Witness ==
    /\ op = "get_dataframe"
    /\ ~defined
    /\ raised = "ValueError"
    /\ gets = <<>>

C7_QueryInStructure ==
    /\ pre[1] # None /\ pre[2] # None /\ pre[3] # None
    /\ HasTab(pre[2][1])
    /\ Has(tables(pre[2][1]), pre[3][1])

(* C7: with an active query whose tab and table are in the structure, a
   network failure or a non-2xx status does not raise: get_dataframe returns
   None, as for an empty page, after exactly one GET. *)
C7_TransportFailureIsNone ==
    (op = "get_dataframe" /\ C7_QueryInStructure) =>
        /\ Len(gets) = 1
        /\ reply # None
        /\ reply[1].transport \in {"network_failure", "http_error"}
               => (raised = "" /\ ret = None /\ Client = pre)

C7_Witness ==
    /\ op = "get_dataframe"
    /\ C7_QueryInStructure
    /\ reply = Some(Reply("http_error", <<>>))
    /\ raised = ""
    /\ ret = None
    /\ Len(gets) = 1
    /\ args.offset = 100
    /\ Flat(gets[1]) = "https://api.example/acme/pb/don?v=3&info=true&listing=true&subtables=0&where=1001,gt,10&limit=100&offset=100"

(* C8: whenever a query is active, its tab and table are in the loaded
   structure, so get_dataframe resolves their identifiers. *)
C8_ActiveInStructure ==
    /\ query_string # None =>
           (/\ active_tab # None
            /\ active_table # None
            /\ HasTab(active_tab[1])
            /\ Has(tables(active_tab[1]), active_table[1]))
    /\ (op = "get_dataframe" /\ pre[1] # None) => raised # "KeyError"

(* C9: get_dataframe leaves the three fields as they were, whatever its
   outcome; a define_query that raises leaves them too; one that returns
   sets all three from its own arguments; and a defined query never goes
   back to None. *)
C9_FetchKeepsQuery ==
    /\ op = "get_dataframe" => Client = pre
    /\ (op = "define_query" /\ raised # "") => Client = pre
    /\ (op = "define_query" /\ raised = "") =>
           /\ active_tab = Some(args.tab_name)
           /\ active_table = Some(args.table_name)
           /\ query_string # None
           /\ SubSeq(query_string[1], 1, 4) =
                  <<"v=", "3", "&info=true&listing=true&subtables=",
                    IF args.include_subtable THEN "1" ELSE "0">>
           /\ Count(query_string[1], "where=") =
                  (IF args.conditions = None THEN 0 ELSE Len(args.conditions[1]))
    /\ pre[1] # None => query_string # None
    /\ (query_string = None) = (active_tab = None)
    /\ (query_string = None) = (active_table = None)
    /\ defined = (query_string # None)

C9_Witness ==
    /\ op = "get_dataframe"
    /\ args.offset = 100
    /\ ret # None
    /\ Client = pre
    /\ Client = <<Some(BaseQuery(FALSE) \o <<"&", "where=", "1001", ",", "gt", ",", "10">>),
                  Some("PB"), Some("Donations")>>

-----------------------------------------------------------------------------
(* Properties of the fetched page, under SpecFetch *)

Fetched == op = "get_dataframe" /\ reply # None /\ reply[1].transport = "ok"

Data == reply[1].data

TypeOf(column_name) ==
    LET cs == columns(active_tab[1], active_table[1])
    IN  IF Has(cs, column_name) THEN Get(cs, column_name).type ELSE "undeclared"

C4_Expected ==
    <<<<StrCell("1"), NaNCell, StrCell("Alice")>>,
      <<StrCell("2"), FloatCell(50), StrCell("Missing Value")>>>>

(* C4: Donations active, the backend answers the scenario's records keyed
   by field id: the table has rows [1, missing, Alice] and
   [2, 50.0, Missing Value]. *)
C4_ScenarioTable ==
    (/\ op = "get_dataframe"
     /\ reply = Some(Reply("ok", ScenarioById))
     /\ active_table = Some("Donations")) =>
        (ret # None /\ ret[1].rows = C4_Expected)

C5_Cell(type, before, after) ==
    CASE type = "number" ->
            /\ after.k \in {"float", "nan"}
            /\ before = StrCell("") => after = NaNCell
            /\ (before.k = "str" /\ before.s # "") =>
                   (after.k = "float" /\ FmtInt(after.n) = before.s)
      [] type = "text" ->
            /\ after # StrCell("")
            /\ before = StrCell("") => after = StrCell("Missing Value")
            /\ before # StrCell("") => after = before
      [] OTHER -> after = before

(* C5: in every returned table a number column holds floats or the missing
   marker (an empty cell gives the marker, any other string its float), a
   text column holds no empty string (an empty cell gives "Missing Value",
   any other cell is unchanged), and the other columns are as flattened. *)
C5_CoercedCells ==
    (Fetched /\ ret # None) =>
        /\ frame # None
        /\ ret[1].columns = frame[1].columns
        /\ Len(ret[1].rows) = Len(frame[1].rows)
        /\ \A i \in 1..Len(frame[1].rows) : \A j \in 1..Len(frame[1].columns) :
               C5_Cell(TypeOf(frame[1].columns[j]), frame[1].rows[i][j],
                       ret[1].rows[i][j])

C5_Witness ==
    /\ Fetched
    /\ active_table = Some("Donations")
    /\ Data = <<Record("1", <<Item("Amount", "50"), Item("Name", ""),
                              Item("_create_date", "2025/01/01")>>)>>
    /\ ret = Some([columns |-> <<"index", "Amount", "Name", "_create_date">>,
                   rows |-> <<<<StrCell("1"), FloatCell(50), StrCell("Missing Value"),
                                StrCell("2025/01/01")>>>>])

(* C6, as stated: a received record set with no entries gives None, one
   with entries gives a table with one row per record. *)
C6_OneRowPerRecord ==
    Fetched =>
        IF Data = <<>> THEN ret = None
        ELSE ret # None /\ Len(ret[1].rows) = Len(Data)

(* C6, amended: a received record set gives None when it has no entries or
   when normalising it raised (the error is logged); otherwise a table with
   one row per record, each row led by its record's key. *)
C6_NoneOrOneRowPerRecord ==
    Fetched =>
        /\ raised = ""
        /\ Data = <<>> => (ret = None /\ logged = "")
        /\ logged # "" => (ret = None /\ Data # <<>>)
        /\ (Data # <<>> /\ logged = "") =>
               /\ ret # None
               /\ Len(ret[1].rows) = Len(Data)
               /\ \A i \in 1..Len(Data) : ret[1].rows[i][1] = StrCell(Data[i].key)

C6_Witness ==
    /\ Fetched
    /\ Len(Data) = 2
    /\ ret # None
    /\ Len(ret[1].rows) = 2
    /\ logged = ""

C10_Retained(field) ==
    \/ field \notin Underscored
    \/ field \in {"_create_date", "_update_date"}

RECURSIVE C10_Union(_, _)
C10_Union(items, seen) ==
    IF items = <<>> THEN seen
    ELSE LET f == Head(items).name
         IN  C10_Union(Tail(items),
                 IF C10_Retained(f) /\ ~InSeq(seen, f) THEN Append(seen, f) ELSE seen)

RECURSIVE C10_Columns(_, _)
C10_Columns(data, seen) ==
    IF data = <<>> THEN seen
    ELSE C10_Columns(Tail(data), C10_Union(Head(data).fields, seen))

(* C10: for every record set the flattened table of line 282 has the
   columns "index" and then the retained fields of all records in first-seen
   order; in each record's row the cell under "index" is the record's key
   and the cell under a field is that record's own value for it, missing
   when the record has no such field. *)
C10_RowsFollowColumns ==
    Fetched =>
        /\ frame # None
        /\ LET t == frame[1]
           IN  /\ t.columns = C10_Columns(Data, <<"index">>)
               /\ Len(t.rows) = Len(Data)
               /\ \A i \in 1..Len(Data) :
                      /\ t.rows[i][1] = StrCell(Data[i].key)
                      /\ \A j \in 2..Len(t.columns) :
                             LET f == t.columns[j]
                                 fields == Data[i].fields
                             IN  IF Has(fields, f)
                                 THEN t.rows[i][j] = StrCell(Get(fields, f).value)
                                 ELSE t.rows[i][j] = NoneCell

====
